---------------------------- MODULE Spec2Model ----------------------------
(***************************************************************************)
(* kube-batch: the job/task model of pkg/scheduler/api/job_info.go and the *)
(* gang plugin (pkg/scheduler/plugins/gang) with the metrics it records.   *)
(*                                                                         *)
(* TaskInfo values are Go pointers.  The model keeps a heap of TaskInfo    *)
(* objects; a JobInfo's Tasks and TaskStatusIndex hold object ids.         *)
(***************************************************************************)
EXTENDS Integers, Sequences, FiniteSets, TLC

VARIABLES
    heap,      \* the TaskInfo objects
    jobs,      \* the JobInfo values in use: the job model's job, or ssn.Jobs
    dupAdds,   \* AddTaskInfo calls made with an id the job already holds
    last,      \* the last call on a job and its outcome
    phase,     \* "none", or the session's "open" / "closed"
    ret,       \* the last call into the gang plugin and what it returned
    metrics,   \* the metrics registry
    cluster,   \* the scheduling cycle and the PodGroup conditions published
    snap       \* a job and its clone: the calls made since the clone was taken

vars == <<heap, jobs, dupAdds, last, phase, ret, metrics, cluster, snap>>

jobVars == <<heap, jobs, dupAdds, last, snap>>

gangVars == <<phase, ret, metrics, cluster>>

---------------------------------------------------------------------------
(* Bounds of the model.                                                    *)

\* number of AddTaskInfo calls made with a task id the job already holds
MaxDupAdds == 1

\* the largest MinMember of a PodGroup
MaxMinAvailable == 3

\* the largest number of preemptees handed to preemptableFn
MaxPreemptees == 2

\* the largest number of nodes with a recorded fit delta
MaxFitNodes == 3

\* the largest number of scheduling cycles
MaxCycles == 2

\* the largest number of calls made on a job and its clone
MaxSnapCalls == 2

---------------------------------------------------------------------------
(* Maps: a Go map is a function whose DOMAIN is the set of present keys.   *)

EmptyMap == << >>

MapPut(m, k, v) == [x \in (DOMAIN m) \cup {k} |-> IF x = k THEN v ELSE m[x]]

MapDelete(m, k) == [x \in (DOMAIN m) \ {k} |-> m[x]]

---------------------------------------------------------------------------
(* TaskStatus and the Resource algebra.                                    *)

TaskStatuses ==
    {"Pending", "Allocated", "Pipelined", "Binding", "Bound", "Running",
     "Releasing", "Succeeded", "Failed", "Unknown"}

AllocatedStatus(status) ==
    status \in {"Allocated", "Pipelined", "Binding", "Bound", "Running"}

\* validateStatusUpdate(from, to): the set of verdicts the guard may give
\* (TRUE: nil, the transition is legal; FALSE: an error).
validateStatusUpdate(oldStatus, newStatus) == BOOLEAN

EmptyResource == [MilliCPU |-> 0, Memory |-> 0]

ResourceAdd(r, rr) ==
    [MilliCPU |-> r.MilliCPU + rr.MilliCPU, Memory |-> r.Memory + rr.Memory]

ResourceSub(r, rr) ==
    [MilliCPU |-> r.MilliCPU - rr.MilliCPU, Memory |-> r.Memory - rr.Memory]

ResourceLessEqual(r, rr) == r.MilliCPU <= rr.MilliCPU /\ r.Memory <= rr.Memory

---------------------------------------------------------------------------
(* Inputs.                                                                 *)

UIDs == {"t1", "t2"}

\* statuses the callers of the job model pass in
InputStatuses == {"Pending", "Allocated", "Running"}

Resreqs == {[MilliCPU |-> 1, Memory |-> 2]}

Slots == {"job", "clone"}

TaskInfo(uid, jobID, status, resreq) ==
    [UID |-> uid, Job |-> jobID, Status |-> status, Resreq |-> resreq]

InputTasks ==
    {TaskInfo(u, "j1", s, r) : u \in UIDs, s \in InputStatuses, r \in Resreqs}

\* newly made tasks passed to DeleteTaskInfo, which reads the UID alone
DeleteTasks == {TaskInfo(u, "j1", "Pending", EmptyResource) : u \in UIDs}

\* newly made tasks passed to UpdateTaskStatus, which reads the task's own
\* Status only to hand it to validateStatusUpdate
UpdateTasks == {TaskInfo(u, "j1", "Pending", r) : u \in UIDs, r \in Resreqs}

---------------------------------------------------------------------------
(* The heap of TaskInfo objects.  An object id has no meaning but         *)
(* identity: a newly made object has id NewObj, and after every call the   *)
(* objects the jobs still refer to are named by the first place that       *)
(* refers to them (Collect, below).                                        *)

NewObj == 0

\* &TaskInfo{...}
Alloc(h, o, t) == MapPut(h, o, t)

\* TaskInfo.Clone: a new object o with the same fields (Resreq cloned by value)
TaskClone(h, ti, o) == Alloc(h, o, h[ti])

---------------------------------------------------------------------------
(* JobInfo.                                                                *)

NewJobInfo(uid) ==
    [UID |-> uid,
     Name |-> "",
     Namespace |-> "",
     MinAvailable |-> 0,
     NodesFitDelta |-> EmptyMap,
     Allocated |-> EmptyResource,
     TotalRequest |-> EmptyResource,
     TaskStatusIndex |-> EmptyMap,
     Tasks |-> EmptyMap]

addTaskIndex(ji, h, ti) ==
    LET st == h[ti].Status
        idx == IF st \in DOMAIN ji.TaskStatusIndex
               THEN ji.TaskStatusIndex
               ELSE MapPut(ji.TaskStatusIndex, st, EmptyMap)
    IN  [ji EXCEPT !.TaskStatusIndex =
                       MapPut(idx, st, MapPut(idx[st], h[ti].UID, ti))]

AddTaskInfo(ji, h, ti) ==
    LET j1 == [ji EXCEPT !.Tasks = MapPut(@, h[ti].UID, ti)]
        j2 == addTaskIndex(j1, h, ti)
        j3 == [j2 EXCEPT !.TotalRequest = ResourceAdd(@, h[ti].Resreq)]
    IN  IF AllocatedStatus(h[ti].Status)
        THEN [j3 EXCEPT !.Allocated = ResourceAdd(@, h[ti].Resreq)]
        ELSE j3

\* deleteTaskIndex that leaves the emptied bucket in the index
deleteTaskIndexKeepsBucket(ji, h, ti) ==
    LET st == h[ti].Status
    IN  IF st \in DOMAIN ji.TaskStatusIndex
        THEN [ji EXCEPT !.TaskStatusIndex =
                 MapPut(@, st, MapDelete(ji.TaskStatusIndex[st], h[ti].UID))]
        ELSE ji

deleteTaskIndex(ji, h, ti) ==
    LET st == h[ti].Status
    IN  IF st \in DOMAIN ji.TaskStatusIndex
        THEN LET tasks == MapDelete(ji.TaskStatusIndex[st], h[ti].UID)
             IN  IF DOMAIN tasks = {}
                 THEN [ji EXCEPT !.TaskStatusIndex = MapDelete(@, st)]
                 ELSE [ji EXCEPT !.TaskStatusIndex = MapPut(@, st, tasks)]
        ELSE ji

\* DeleteTaskInfo returns the job and whether it returned an error
DeleteTaskInfo(ji, h, ti) ==
    IF h[ti].UID \in DOMAIN ji.Tasks
    THEN LET task == ji.Tasks[h[ti].UID]
             j1 == [ji EXCEPT !.TotalRequest = ResourceSub(@, h[task].Resreq)]
             j2 == IF AllocatedStatus(h[task].Status)
                   THEN [j1 EXCEPT !.Allocated = ResourceSub(@, h[task].Resreq)]
                   ELSE j1
             j3 == [j2 EXCEPT !.Tasks = MapDelete(@, h[task].UID)]
         IN  [ji |-> deleteTaskIndex(j3, h, task), err |-> FALSE]
    ELSE [ji |-> ji, err |-> TRUE]

\* UpdateTaskStatus that adds the task without deleting it first
UpdateTaskStatusNoDelete(ji, h, task, status, legal) ==
    IF ~legal
    THEN [ji |-> ji, h |-> h, err |-> TRUE]
    ELSE LET h1 == [h EXCEPT ![task].Status = status]
         IN  [ji |-> AddTaskInfo(ji, h1, task), h |-> h1, err |-> FALSE]

\* UpdateTaskStatus that writes the task's status before it asks the guard
UpdateTaskStatusWritesFirst(ji, h, task, status, legal) ==
    LET h1 == [h EXCEPT ![task].Status = status]
    IN  IF ~legal
        THEN [ji |-> ji, h |-> h1, err |-> TRUE]
        ELSE [ji |-> AddTaskInfo(DeleteTaskInfo(ji, h, task).ji, h1, task),
              h |-> h1, err |-> FALSE]

\* UpdateTaskStatus that adds the task back before it writes the new status
UpdateTaskStatusAddsFirst(ji, h, task, status, legal) ==
    IF ~legal
    THEN [ji |-> ji, h |-> h, err |-> TRUE]
    ELSE [ji |-> AddTaskInfo(DeleteTaskInfo(ji, h, task).ji, h, task),
          h |-> [h EXCEPT ![task].Status = status], err |-> FALSE]

\* UpdateTaskStatus with the guard's verdict; returns the job, the heap (the
\* task object's Status is written) and whether it returned an error
UpdateTaskStatus(ji, h, task, status, legal) ==
    IF ~legal
    THEN [ji |-> ji, h |-> h, err |-> TRUE]
    ELSE LET d == DeleteTaskInfo(ji, h, task)
             h1 == [h EXCEPT ![task].Status = status]
         IN  [ji |-> AddTaskInfo(d.ji, h1, task), h |-> h1, err |-> FALSE]

\* the loop of a Clone that adds the job's own tasks: info.AddTaskInfo(task)
RECURSIVE CloneTasksShared(_, _, _, _)
CloneTasksShared(info, h, ji, todo) ==
    IF todo = {} THEN [ji |-> info, h |-> h]
    ELSE LET u == CHOOSE x \in todo : TRUE
         IN  CloneTasksShared(AddTaskInfo(info, h, ji.Tasks[u]), h, ji,
                              todo \ {u})

\* the loop of JobInfo.Clone over ji.Tasks: info.AddTaskInfo(task.Clone());
\* the clones are new objects, named -1, -2, ... until Collect names them
RECURSIVE CloneTasks(_, _, _, _)
CloneTasks(info, h, ji, todo) ==
    IF todo = {}
    THEN [ji |-> info, h |-> h]
    ELSE LET u == CHOOSE x \in todo : TRUE
             o == 0 - Cardinality(todo)
             h1 == TaskClone(h, ji.Tasks[u], o)
         IN  CloneTasks(AddTaskInfo(info, h1, o), h1, ji, todo \ {u})

\* pg: the PodGroup's Name, Namespace and Spec.MinMember
SetPodGroup(ji, pg) ==
    [ji EXCEPT !.Name = pg.Name,
               !.Namespace = pg.Namespace,
               !.MinAvailable = pg.MinMember]

Clone(ji, h) ==
    LET info == [NewJobInfo(ji.UID) EXCEPT !.Name = ji.Name,
                                           !.Namespace = ji.Namespace,
                                           !.MinAvailable = ji.MinAvailable]
    IN  CloneTasks(info, h, ji, DOMAIN ji.Tasks)

---------------------------------------------------------------------------
(* Objects a job refers to, and the collection of unreferenced objects.    *)

IndexRefs(ji) ==
    UNION {{ji.TaskStatusIndex[s][u] : u \in DOMAIN ji.TaskStatusIndex[s]} :
              s \in DOMAIN ji.TaskStatusIndex}

JobRefs(ji) == {ji.Tasks[u] : u \in DOMAIN ji.Tasks} \cup IndexRefs(ji)

UIDNum == [t1 |-> 1, t2 |-> 2, t3 |-> 3, t4 |-> 4, t5 |-> 5]

StatusNum ==
    [Pending |-> 1, Allocated |-> 2, Pipelined |-> 3, Binding |-> 4,
     Bound |-> 5, Running |-> 6, Releasing |-> 7, Succeeded |-> 8,
     Failed |-> 9, Unknown |-> 10]

SlotNum ==
    ("job" :> 1) @@ ("clone" :> 2)
    @@ ("ns1/a" :> 3) @@ ("ns1/b" :> 4) @@ ("ns2/a" :> 5)

\* the places of the jobs that hold a pointer, as numbers, each with the
\* object it points to: in a job the Tasks entries come first, then the
\* TaskStatusIndex entries
PlaceRefs(js) ==
    UNION {{<<1000 * SlotNum[s] + UIDNum[u], js[s].Tasks[u]>> :
               u \in DOMAIN js[s].Tasks}
           \cup UNION {{<<1000 * SlotNum[s] + 10 * StatusNum[st] + UIDNum[u],
                          js[s].TaskStatusIndex[st][u]>> :
                           u \in DOMAIN js[s].TaskStatusIndex[st]} :
                       st \in DOMAIN js[s].TaskStatusIndex} :
           s \in DOMAIN js}

\* the first place of refs that points to object o
FirstPlace(refs, o) ==
    LET ps == {r[1] : r \in {x \in refs : x[2] = o}}
    IN  CHOOSE p \in ps : \A q \in ps : p <= q

RenameJob(ji, f) ==
    [ji EXCEPT
        !.Tasks = [u \in DOMAIN ji.Tasks |-> f[ji.Tasks[u]]],
        !.TaskStatusIndex =
            [st \in DOMAIN ji.TaskStatusIndex |->
                [u \in DOMAIN ji.TaskStatusIndex[st] |->
                    f[ji.TaskStatusIndex[st][u]]]]]

\* Objects no job refers to are dropped (a caller that still holds one holds
\* what a newly made TaskInfo with the same fields is); the others are named
\* by the first place that refers to them.
Collect(h, js) ==
    LET refs == PlaceRefs(js)
        live == {r[2] : r \in refs}
        name == [o \in live |-> FirstPlace(refs, o)]
    IN  [h |-> [n \in {name[o] : o \in live} |->
                    h[(CHOOSE r \in refs : r[1] = n)[2]]],
         js |-> [s \in DOMAIN js |-> RenameJob(js[s], name)]]

---------------------------------------------------------------------------
(* The job model: one job and the calls on it; Clone replaces the job by   *)
(* its clone (job = job.Clone()).                                          *)

NoRet == [fn |-> "none"]

\* the gauges and counters written by the gang plugin
NewMetrics ==
    [unscheduleTaskCount |-> EmptyMap,
     unscheduleJobCount |-> 0,
     jobRetryCount |-> EmptyMap]

\* no clone taken
NoSnap == [calls |-> 0]

\* the first scheduling cycle, no PodGroup with a condition
NewCluster == [cycle |-> 1, conditions |-> EmptyMap]

NoCall ==
    [op |-> "none", slot |-> "none", uid |-> "none", status |-> "none",
     old |-> "none", err |-> FALSE]

Init ==
    /\ heap = EmptyMap
    /\ jobs = [s \in {"job"} |-> NewJobInfo("j1")]
    /\ dupAdds = 0
    /\ last = NoCall
    /\ phase = "none"
    /\ ret = NoRet
    /\ metrics = NewMetrics
    /\ cluster = NewCluster
    /\ snap = NoSnap

\* the task argument of a call on slot s: an object the job holds, or a newly
\* made TaskInfo
Args(s, made) ==
    {[o |-> o, h |-> heap] : o \in JobRefs(jobs[s])}
    \cup {[o |-> NewObj, h |-> Alloc(heap, NewObj, t)] : t \in made}

\* the job's task of id uid is the object o itself
Holds(ji, uid, o) == uid \in DOMAIN ji.Tasks /\ ji.Tasks[uid] = o

StoredStatus(ji, h, uid) ==
    IF uid \in DOMAIN ji.Tasks THEN h[ji.Tasks[uid]].Status ELSE "none"

\* jobs[s].AddTaskInfo(a)
AddTaskInfoCall(s, a) ==
    LET uid == a.h[a.o].UID
        dup == uid \in DOMAIN jobs[s].Tasks
        c == Collect(a.h, [jobs EXCEPT ![s] = AddTaskInfo(jobs[s], a.h, a.o)])
    IN  /\ dup => dupAdds < MaxDupAdds
        /\ jobs' = c.js
        /\ heap' = c.h
        /\ dupAdds' = IF dup THEN dupAdds + 1 ELSE dupAdds
        /\ last' = [op |-> "AddTaskInfo", slot |-> s, uid |-> uid,
                    status |-> a.h[a.o].Status, old |-> "none",
                    err |-> FALSE]
        /\ UNCHANGED gangVars

DoAddTaskInfo(s) ==
    /\ s \in DOMAIN jobs
    /\ \E a \in Args(s, InputTasks) : AddTaskInfoCall(s, a)

\* jobs[s].DeleteTaskInfo(a)
DeleteTaskInfoCall(s, a) ==
    LET uid == a.h[a.o].UID
        d == DeleteTaskInfo(jobs[s], a.h, a.o)
        c == Collect(a.h, [jobs EXCEPT ![s] = d.ji])
    IN  /\ jobs' = c.js
        /\ heap' = c.h
        /\ last' = [op |-> "DeleteTaskInfo", slot |-> s, uid |-> uid,
                    status |-> "none",
                    old |-> StoredStatus(jobs[s], a.h, uid), err |-> d.err]
        /\ UNCHANGED dupAdds
        /\ UNCHANGED gangVars

DoDeleteTaskInfo(s) ==
    /\ s \in DOMAIN jobs
    /\ \E a \in Args(s, DeleteTasks) : DeleteTaskInfoCall(s, a)

\* jobs[s].UpdateTaskStatus(a, status), the guard's verdict being legal; a
\* call that changed neither the job nor a task leaves the state as it is
UpdateTaskStatusCall(s, a, status, legal) ==
    LET uid == a.h[a.o].UID
        r == UpdateTaskStatus(jobs[s], a.h, a.o, status, legal)
        c == IF r.ji = jobs[s] /\ r.h = a.h
             THEN [h |-> heap, js |-> jobs]
             ELSE Collect(r.h, [jobs EXCEPT ![s] = r.ji])
    IN  /\ jobs' = c.js
        /\ heap' = c.h
        /\ last' = [op |-> "UpdateTaskStatus", slot |-> s, uid |-> uid,
                    status |-> IF r.err THEN "none" ELSE status,
                    old |-> IF r.err THEN "none"
                            ELSE StoredStatus(jobs[s], a.h, uid),
                    err |-> r.err]
        /\ UNCHANGED dupAdds
        /\ UNCHANGED gangVars

DoUpdateTaskStatus(s) ==
    /\ s \in DOMAIN jobs
    /\ \E a \in Args(s, UpdateTasks), status \in InputStatuses :
        \E legal \in validateStatusUpdate(a.h[a.o].Status, status) :
            UpdateTaskStatusCall(s, a, status, legal)

\* job = job.Clone(): the caller goes on with the clone
DoClone ==
    /\ LET r == Clone(jobs["job"], heap)
           c == Collect(r.h, [jobs EXCEPT !["job"] = r.ji])
       IN  /\ jobs' = c.js
           /\ heap' = c.h
    /\ last' = [op |-> "Clone", slot |-> "job", uid |-> "none",
                status |-> "none", old |-> "none", err |-> FALSE]
    /\ UNCHANGED dupAdds
    /\ UNCHANGED gangVars

Next ==
    \/ (\E s \in Slots : DoAddTaskInfo(s)) /\ UNCHANGED snap
    \/ (\E s \in Slots : DoDeleteTaskInfo(s)) /\ UNCHANGED snap
    \/ (\E s \in Slots : DoUpdateTaskStatus(s)) /\ UNCHANGED snap
    \/ DoClone /\ UNCHANGED snap

Spec == Init /\ [][Next]_vars

---------------------------------------------------------------------------
(* Properties of the job model.                                            *)

RECURSIVE SumResreq(_, _, _)
SumResreq(ji, h, uids) ==
    IF uids = {} THEN EmptyResource
    ELSE LET u == CHOOSE x \in uids : TRUE
         IN  ResourceAdd(h[ji.Tasks[u]].Resreq, SumResreq(ji, h, uids \ {u}))

AllocatedUIDs(ji, h) ==
    {u \in DOMAIN ji.Tasks : AllocatedStatus(h[ji.Tasks[u]].Status)}

InBucket(ji, status, uid) ==
    /\ status \in DOMAIN ji.TaskStatusIndex
    /\ uid \in DOMAIN ji.TaskStatusIndex[status]

BucketsOf(ji, uid) ==
    {st \in DOMAIN ji.TaskStatusIndex : uid \in DOMAIN ji.TaskStatusIndex[st]}

IndexedUIDs(ji) ==
    UNION {DOMAIN ji.TaskStatusIndex[st] : st \in DOMAIN ji.TaskStatusIndex}

\* Sub is never called with more than the aggregate holds
NoUnderflow ==
    \A s \in DOMAIN jobs :
        /\ ResourceLessEqual(EmptyResource, jobs[s].Allocated)
        /\ ResourceLessEqual(EmptyResource, jobs[s].TotalRequest)

\* C1: in every reachable state (calls of AddTaskInfo with an id the job
\* already holds included) Allocated is the sum of Resreq over the tasks of
\* Tasks whose status is an AllocatedStatus.
C1_AllocatedIsSum ==
    \A s \in DOMAIN jobs :
        jobs[s].Allocated = SumResreq(jobs[s], heap, AllocatedUIDs(jobs[s], heap))

\* C2: in every reachable state (calls of AddTaskInfo with an id the job
\* already holds included) TotalRequest is the sum of Resreq over all tasks
\* of Tasks.
C2_TotalRequestIsSum ==
    \A s \in DOMAIN jobs :
        jobs[s].TotalRequest = SumResreq(jobs[s], heap, DOMAIN jobs[s].Tasks)

\* C3: in every reachable state the task ids of Tasks are the task ids of the
\* buckets of TaskStatusIndex, and each id is in exactly one bucket, that of
\* the task's current status.
C3_IndexMatchesTasks ==
    \A s \in DOMAIN jobs :
        /\ IndexedUIDs(jobs[s]) = DOMAIN jobs[s].Tasks
        /\ \A u \in DOMAIN jobs[s].Tasks :
               BucketsOf(jobs[s], u) = {heap[jobs[s].Tasks[u]].Status}

UpdateSucceeded == last.op = "UpdateTaskStatus" /\ ~last.err

\* C4 as stated: after UpdateTaskStatus(t, s) returned no error, t is in
\* TaskStatusIndex[s] and not in TaskStatusIndex[old], old being the status
\* the job's task had before the call.
C4_Original ==
    UpdateSucceeded =>
        /\ InBucket(jobs[last.slot], last.status, last.uid)
        /\ last.old # "none" => ~InBucket(jobs[last.slot], last.old, last.uid)

\* C4 as amended: after UpdateTaskStatus(t, s) returned no error, t is in
\* TaskStatusIndex[s], and t is not in TaskStatusIndex[old] unless s = old.
C4_UpdateMovesTask ==
    UpdateSucceeded =>
        /\ InBucket(jobs[last.slot], last.status, last.uid)
        /\ last.old \notin {"none", last.status}
               => ~InBucket(jobs[last.slot], last.old, last.uid)

\* an update that moved a task of the job from one bucket to another
C4_Witness ==
    /\ UpdateSucceeded
    /\ last.old \notin {"none", last.status}
    /\ InBucket(jobs[last.slot], last.status, last.uid)

\* C5: in every reachable state TaskStatusIndex holds no empty bucket.
C5_NoEmptyBucket ==
    \A s \in DOMAIN jobs :
        \A st \in DOMAIN jobs[s].TaskStatusIndex :
            DOMAIN jobs[s].TaskStatusIndex[st] # {}

\* the last task of a bucket was moved or deleted, and the bucket is gone
\* while another bucket is still there
C5_Witness ==
    /\ last.op \in {"UpdateTaskStatus", "DeleteTaskInfo"}
    /\ ~last.err
    /\ last.old \notin {"none", last.status}
    /\ last.old \notin DOMAIN jobs[last.slot].TaskStatusIndex
    /\ DOMAIN jobs[last.slot].TaskStatusIndex # {}

---------------------------------------------------------------------------
(* Formatting: %d and %v of an integer, and the byte order of sort.Strings. *)

Digit(d) ==
    CASE d = 0 -> "0" [] d = 1 -> "1" [] d = 2 -> "2" [] d = 3 -> "3"
      [] d = 4 -> "4" [] d = 5 -> "5" [] d = 6 -> "6" [] d = 7 -> "7"
      [] d = 8 -> "8" [] d = 9 -> "9"

RECURSIVE Itoa(_)
Itoa(n) ==
    IF n < 0 THEN "-" \o Itoa(0 - n)
    ELSE IF n < 10 THEN Digit(n)
    ELSE Itoa(n \div 10) \o Digit(n % 10)

\* the bytes of Itoa(n), n >= 0
RECURSIVE ItoaBytes(_)
ItoaBytes(n) ==
    IF n < 10 THEN <<48 + n>> ELSE ItoaBytes(n \div 10) \o <<48 + (n % 10)>>

---------------------------------------------------------------------------
(* JobInfo.FitError.                                                        *)

\* the resource names FitError looks at, with the bytes of their reason keys
\* ("GPU", "cpu", "memory")
ReasonKeys == {"GPU", "cpu", "memory"}

KeyBytes(k) ==
    CASE k = "GPU" -> <<71, 80, 85>>
      [] k = "cpu" -> <<99, 112, 117>>
      [] k = "memory" -> <<109, 101, 109, 111, 114, 121>>

\* Resource.Get(name) of a NodesFitDelta entry
ResourceGet(v, k) ==
    CASE k = "cpu" -> v.MilliCPU
      [] k = "memory" -> v.Memory
      [] k = "GPU" -> v.MilliGPU

\* reasons[k]: the number of nodes whose delta of k is negative
ReasonCount(ji, k) ==
    Cardinality({n \in DOMAIN ji.NodesFitDelta :
                    ResourceGet(ji.NodesFitDelta[n], k) < 0})

\* fmt.Sprintf("%v insufficient %v", v, k) and its bytes
ReasonString(v, k) == Itoa(v) \o " insufficient " \o k

ReasonBytes(v, k) ==
    ItoaBytes(v)
    \o <<32, 105, 110, 115, 117, 102, 102, 105, 99, 105, 101, 110, 116, 32>>
    \o KeyBytes(k)

\* a < b in the order of sort.Strings
RECURSIVE BytesLess(_, _)
BytesLess(a, b) ==
    IF b = << >> THEN FALSE
    ELSE IF a = << >> THEN TRUE
    ELSE IF Head(a) # Head(b) THEN Head(a) < Head(b)
    ELSE BytesLess(Tail(a), Tail(b))

\* the join with the reason strings in descending order
RECURSIVE JoinDescending(_, _)
JoinDescending(ji, ks) ==
    IF ks = {} THEN ""
    ELSE LET k == CHOOSE x \in ks : \A y \in ks \ {x} :
                      BytesLess(ReasonBytes(ReasonCount(ji, y), y),
                                ReasonBytes(ReasonCount(ji, x), x))
             rest == ks \ {k}
         IN  ReasonString(ReasonCount(ji, k), k)
             \o (IF rest = {} THEN "" ELSE ", " \o JoinDescending(ji, rest))

\* strings.Join(sortReasonsHistogram(), ", ") over the reason keys ks
RECURSIVE JoinSorted(_, _)
JoinSorted(ji, ks) ==
    IF ks = {} THEN ""
    ELSE LET k == CHOOSE x \in ks : \A y \in ks \ {x} :
                      BytesLess(ReasonBytes(ReasonCount(ji, x), x),
                                ReasonBytes(ReasonCount(ji, y), y))
             rest == ks \ {k}
         IN  ReasonString(ReasonCount(ji, k), k)
             \o (IF rest = {} THEN "" ELSE ", " \o JoinSorted(ji, rest))

\* FitError without the case of no recorded node
FitErrorNoEmptyCase(ji) ==
    "0/" \o Itoa(Cardinality(DOMAIN ji.NodesFitDelta))
    \o " nodes are available, "
    \o JoinSorted(ji, {k \in ReasonKeys : ReasonCount(ji, k) > 0})
    \o "."

FitError(ji) ==
    IF DOMAIN ji.NodesFitDelta = {}
    THEN "0 nodes are available"
    ELSE "0/" \o Itoa(Cardinality(DOMAIN ji.NodesFitDelta))
         \o " nodes are available, "
         \o JoinSorted(ji, {k \in ReasonKeys : ReasonCount(ji, k) > 0})
         \o "."

---------------------------------------------------------------------------
(* The gang plugin.  Its int32 counts are integers: a job holds far fewer   *)
(* than 2^31 tasks, so no count wraps.                                      *)

\* the sum of len(tasks) over the buckets whose status is in statuses
RECURSIVE SumLen(_, _)
SumLen(idx, statuses) ==
    IF statuses = {} THEN 0
    ELSE LET st == CHOOSE x \in statuses : TRUE
         IN  Cardinality(DOMAIN idx[st]) + SumLen(idx, statuses \ {st})

\* readyTaskNum that counts the Pending tasks too
readyTaskNumWithPending(job) ==
    SumLen(job.TaskStatusIndex,
           {st \in DOMAIN job.TaskStatusIndex :
               \/ AllocatedStatus(st)
               \/ st = "Succeeded"
               \/ st = "Pipelined"
               \/ st = "Pending"})

readyTaskNum(job) ==
    SumLen(job.TaskStatusIndex,
           {st \in DOMAIN job.TaskStatusIndex :
               \/ AllocatedStatus(st)
               \/ st = "Succeeded"
               \/ st = "Pipelined"})

\* validTaskNum that leaves the Pending tasks out
validTaskNumNoPending(job) ==
    SumLen(job.TaskStatusIndex,
           {st \in DOMAIN job.TaskStatusIndex :
               \/ AllocatedStatus(st)
               \/ st = "Succeeded"
               \/ st = "Pipelined"})

validTaskNum(job) ==
    SumLen(job.TaskStatusIndex,
           {st \in DOMAIN job.TaskStatusIndex :
               \/ AllocatedStatus(st)
               \/ st = "Succeeded"
               \/ st = "Pipelined"
               \/ st = "Pending"})

jobReady(job) == readyTaskNum(job) >= job.MinAvailable

\* a nil *api.ValidateResult
NilResult == [nil |-> TRUE]

validJobFn(job) ==
    LET vtn == validTaskNum(job)
    IN  IF vtn < job.MinAvailable
        THEN [Pass |-> FALSE,
              Reason |-> "NotEnoughPodsReason",
              Message |-> "Not enough valid tasks for gang-scheduling, valid: "
                          \o Itoa(vtn) \o ", min: " \o Itoa(job.MinAvailable)]
        ELSE NilResult

\* preemptableFn that admits a candidate whenever its job is ready
RECURSIVE preemptableFnWhenReady(_, _, _, _)
preemptableFnWhenReady(ssnJobs, h, preemptor, preemptees) ==
    IF preemptees = << >> THEN << >>
    ELSE LET preemptee == Head(preemptees)
             job == ssnJobs[h[preemptee].Job]
             occupid == readyTaskNum(job)
             preemptable == job.MinAvailable <= occupid \/ job.MinAvailable = 1
             rest == preemptableFnWhenReady(ssnJobs, h, preemptor,
                                            Tail(preemptees))
         IN  IF preemptable THEN <<preemptee>> \o rest ELSE rest

\* preemptableFn: the victims among the preemptees, in their order
RECURSIVE preemptableFn(_, _, _, _)
preemptableFn(ssnJobs, h, preemptor, preemptees) ==
    IF preemptees = << >> THEN << >>
    ELSE LET preemptee == Head(preemptees)
             job == ssnJobs[h[preemptee].Job]
             occupid == readyTaskNum(job)
             preemptable == \/ job.MinAvailable <= occupid - 1
                            \/ job.MinAvailable = 1
             rest == preemptableFn(ssnJobs, h, preemptor, Tail(preemptees))
         IN  IF preemptable THEN <<preemptee>> \o rest ELSE rest

\* jobOrderFn that puts the ready job first
jobOrderFnReadyFirst(l, r) ==
    LET lReady == jobReady(l)
        rReady == jobReady(r)
    IN  IF lReady /\ rReady THEN 0
        ELSE IF lReady THEN 0 - 1
        ELSE IF rReady THEN 1
        ELSE 0

jobOrderFn(l, r) ==
    LET lReady == jobReady(l)
        rReady == jobReady(r)
    IN  IF lReady /\ rReady THEN 0
        ELSE IF lReady THEN 1
        ELSE IF rReady THEN 0 - 1
        ELSE 0

---------------------------------------------------------------------------
(* The metrics the gang plugin records.                                     *)

\* unscheduleTaskCount.WithLabelValues(jobID).Set(float64(taskCount))
UpdateUnscheduleTaskCount(m, jobID, taskCount) ==
    [m EXCEPT !.unscheduleTaskCount = MapPut(@, jobID, taskCount)]

\* unscheduleJobCount.Set(float64(jobCount))
UpdateUnscheduleJobCount(m, jobCount) ==
    [m EXCEPT !.unscheduleJobCount = jobCount]

\* jobRetryCount.WithLabelValues(jobID).Inc()
RegisterJobRetries(m, jobID) ==
    [m EXCEPT !.jobRetryCount =
        MapPut(@, jobID, (IF jobID \in DOMAIN @ THEN @[jobID] ELSE 0) + 1)]

---------------------------------------------------------------------------
(* gangPlugin.OnSessionClose.  The calls it makes are kept in order, each   *)
(* with its arguments; ssn.UpdateJobCondition returns an error for the jobs *)
(* of fails.  LastTransitionTime (the wall clock) is left out of the        *)
(* condition.                                                               *)

\* the body of the loop with MinAvailable - validTaskNum for the shortfall
CloseUnreadyValidShortfall(job, ssnUID, fails, acc) ==
    LET unreadyTaskCount == job.MinAvailable - validTaskNum(job)
        msg == Itoa(job.MinAvailable - validTaskNum(job)) \o "/"
               \o Itoa(Cardinality(DOMAIN job.Tasks))
               \o " tasks in gang unschedulable: " \o FitError(job)
        jc == [Type |-> "PodGroupUnschedulableType",
               Status |-> "ConditionTrue",
               TransitionID |-> ssnUID,
               Reason |-> "NotEnoughResourcesReason",
               Message |-> msg]
    IN  [count |-> acc.count + 1,
         m |-> RegisterJobRetries(
                   UpdateUnscheduleTaskCount(acc.m, job.Name, unreadyTaskCount),
                   job.Name),
         calls |-> acc.calls \o
             <<[fn |-> "UpdateUnscheduleTaskCount", jobID |-> job.Name,
                taskCount |-> unreadyTaskCount],
               [fn |-> "RegisterJobRetries", jobID |-> job.Name],
               [fn |-> "UpdateJobCondition", job |-> job.UID, cond |-> jc,
                err |-> job.UID \in fails]>>]

\* the body of the loop for one job that is not ready
CloseUnready(job, ssnUID, fails, acc) ==
    LET unreadyTaskCount == job.MinAvailable - readyTaskNum(job)
        msg == Itoa(job.MinAvailable - readyTaskNum(job)) \o "/"
               \o Itoa(Cardinality(DOMAIN job.Tasks))
               \o " tasks in gang unschedulable: " \o FitError(job)
        jc == [Type |-> "PodGroupUnschedulableType",
               Status |-> "ConditionTrue",
               TransitionID |-> ssnUID,
               Reason |-> "NotEnoughResourcesReason",
               Message |-> msg]
    IN  [count |-> acc.count + 1,
         m |-> RegisterJobRetries(
                   UpdateUnscheduleTaskCount(acc.m, job.Name, unreadyTaskCount),
                   job.Name),
         calls |-> acc.calls \o
             <<[fn |-> "UpdateUnscheduleTaskCount", jobID |-> job.Name,
                taskCount |-> unreadyTaskCount],
               [fn |-> "RegisterJobRetries", jobID |-> job.Name],
               [fn |-> "UpdateJobCondition", job |-> job.UID, cond |-> jc,
                err |-> job.UID \in fails]>>]

\* the loop that reports every job, ready or not
RECURSIVE CloseLoopAllJobs(_, _, _, _, _)
CloseLoopAllJobs(ssnJobs, ssnUID, order, fails, acc) ==
    IF order = << >> THEN acc
    ELSE CloseLoopAllJobs(ssnJobs, ssnUID, Tail(order), fails,
                          CloseUnready(ssnJobs[Head(order)], ssnUID, fails, acc))

\* the loop that gives up at the first failed UpdateJobCondition
RECURSIVE CloseLoopStopsOnError(_, _, _, _, _)
CloseLoopStopsOnError(ssnJobs, ssnUID, order, fails, acc) ==
    IF order = << >> THEN acc
    ELSE LET job == ssnJobs[Head(order)]
         IN  IF jobReady(job)
             THEN CloseLoopStopsOnError(ssnJobs, ssnUID, Tail(order), fails,
                                        acc)
             ELSE IF job.UID \in fails
             THEN CloseUnready(job, ssnUID, fails, acc)
             ELSE CloseLoopStopsOnError(ssnJobs, ssnUID, Tail(order), fails,
                                        CloseUnready(job, ssnUID, fails, acc))

\* for _, job := range ssn.Jobs, in the order the map iteration takes
RECURSIVE CloseLoop(_, _, _, _, _)
CloseLoop(ssnJobs, ssnUID, order, fails, acc) ==
    IF order = << >> THEN acc
    ELSE LET job == ssnJobs[Head(order)]
         IN  CloseLoop(ssnJobs, ssnUID, Tail(order), fails,
                       IF ~jobReady(job)
                       THEN CloseUnready(job, ssnUID, fails, acc)
                       ELSE acc)

\* OnSessionClose that takes every job for not ready
OnSessionCloseAllJobs(ssnJobs, ssnUID, m, order, fails) ==
    LET r == CloseLoopAllJobs(ssnJobs, ssnUID, order, fails,
                              [count |-> 0, m |-> m, calls |-> << >>])
    IN  [m |-> UpdateUnscheduleJobCount(r.m, r.count),
         calls |-> r.calls \o
             <<[fn |-> "UpdateUnscheduleJobCount", jobCount |-> r.count]>>]

\* returns the registry and the calls made
OnSessionClose(ssnJobs, ssnUID, m, order, fails) ==
    LET r == CloseLoop(ssnJobs, ssnUID, order, fails,
                       [count |-> 0, m |-> m, calls |-> << >>])
    IN  [m |-> UpdateUnscheduleJobCount(r.m, r.count),
         calls |-> r.calls \o
             <<[fn |-> "UpdateUnscheduleJobCount", jobCount |-> r.count]>>]

---------------------------------------------------------------------------
(* The session the gang plugin works on: ssn.Jobs is the snapshot (Clone)   *)
(* of the cache's jobs.  Two of the jobs have the same Name in different    *)
(* namespaces.                                                              *)

SsnUID == "ssn-1"

SsnJobIDs == {"ns1/a", "ns1/b", "ns2/a"}

\* the tasks of the cluster with the job each belongs to, in creation order
SsnTasks == <<"t1", "t2", "t3", "t4", "t5">>

SsnTaskJob ==
    [t1 |-> "ns1/a", t2 |-> "ns1/a", t3 |-> "ns1/a", t4 |-> "ns1/b",
     t5 |-> "ns2/a"]

\* the statuses a task may have when the session opens ("absent": no such pod)
SsnStatusChoices ==
    [t1 |-> TaskStatuses \cup {"absent"},
     t2 |-> {"absent", "Pending", "Running", "Releasing"},
     t3 |-> {"absent", "Running"},
     t4 |-> {"Pending", "Running"},
     t5 |-> {"Pending", "Running"}]

SsnChoices ==
    [t1 : SsnStatusChoices.t1, t2 : SsnStatusChoices.t2,
     t3 : SsnStatusChoices.t3, t4 : SsnStatusChoices.t4,
     t5 : SsnStatusChoices.t5]

PodGroup(jobID, minMember) ==
    CASE jobID = "ns1/a" ->
             [Name |-> "a", Namespace |-> "ns1", MinMember |-> minMember]
      [] jobID = "ns1/b" -> [Name |-> "b", Namespace |-> "ns1", MinMember |-> 1]
      [] jobID = "ns2/a" -> [Name |-> "a", Namespace |-> "ns2", MinMember |-> 1]

\* the cache adds the pods of ch to their jobs, one AddTaskInfo each
RECURSIVE AddPods(_, _, _)
AddPods(st, ch, todo) ==
    IF todo = << >> THEN st
    ELSE LET u == Head(todo)
             j == SsnTaskJob[u]
             t == TaskInfo(u, j, ch[u], [MilliCPU |-> 1, Memory |-> 0])
             h1 == Alloc(st.h, NewObj, t)
         IN  IF ch[u] = "absent" THEN AddPods(st, ch, Tail(todo))
             ELSE AddPods(Collect(h1, [st.js EXCEPT ![j] =
                                          AddTaskInfo(st.js[j], h1, NewObj)]),
                          ch, Tail(todo))

\* the snapshot: every job of the cache is cloned
RECURSIVE Snapshot(_, _)
Snapshot(st, todo) ==
    IF todo = {} THEN st
    ELSE LET j == CHOOSE x \in todo : TRUE
             r == Clone(st.js[j], st.h)
         IN  Snapshot(Collect(r.h, [st.js EXCEPT ![j] = r.ji]), todo \ {j})

\* OpenSession: the jobs of the cache, built from the pods and PodGroups,
\* and then the snapshot of them
OpenSession(ch, minMember) ==
    LET cache == [j \in SsnJobIDs |->
                     SetPodGroup(NewJobInfo(j), PodGroup(j, minMember))]
    IN  Snapshot(AddPods([h |-> EmptyMap, js |-> cache], ch, SsnTasks),
                 SsnJobIDs)

InitGang ==
    /\ \E ch \in SsnChoices, minMember \in 0..MaxMinAvailable :
           LET st == OpenSession(ch, minMember)
           IN  heap = st.h /\ jobs = st.js
    /\ dupAdds = 0
    /\ last = NoCall
    /\ phase = "open"
    /\ ret = NoRet
    /\ metrics = NewMetrics
    /\ cluster = NewCluster
    /\ snap = NoSnap

\* the sequences of at most n elements of S
RECURSIVE SeqsUpTo(_, _)
SeqsUpTo(S, n) ==
    IF n = 0 THEN {<< >>}
    ELSE LET shorter == SeqsUpTo(S, n - 1)
         IN  shorter \cup {Append(q, x) : q \in shorter, x \in S}

\* the orders a range over the keys of S may take
Orders(S) ==
    {q \in [1..Cardinality(S) -> S] : \A i, k \in DOMAIN q : q[i] = q[k] => i = k}

\* the tasks that ask for resources: those of the one-task jobs
Preemptors == {o \in DOMAIN heap : heap[o].UID \in {"t4", "t5"}}

CallJobReady(j) ==
    /\ phase = "open" /\ ret = NoRet
    /\ ret' = [fn |-> "jobReady", job |-> j, res |-> jobReady(jobs[j])]
    /\ UNCHANGED <<jobVars, phase, metrics, cluster>>

CallValidJobFn(j) ==
    /\ phase = "open" /\ ret = NoRet
    /\ ret' = [fn |-> "validJobFn", job |-> j, res |-> validJobFn(jobs[j])]
    /\ UNCHANGED <<jobVars, phase, metrics, cluster>>

CallJobOrderFn(l, r) ==
    /\ phase = "open" /\ ret = NoRet
    /\ ret' = [fn |-> "jobOrderFn", l |-> l, r |-> r,
               res |-> jobOrderFn(jobs[l], jobs[r])]
    /\ UNCHANGED <<jobVars, phase, metrics, cluster>>

CallPreemptableFn ==
    /\ phase = "open" /\ ret = NoRet
    /\ \E preemptor \in Preemptors,
          preemptees \in SeqsUpTo(DOMAIN heap, MaxPreemptees) :
           ret' = [fn |-> "preemptableFn", preemptor |-> preemptor,
                   preemptees |-> preemptees,
                   res |-> preemptableFn(jobs, heap, preemptor, preemptees)]
    /\ UNCHANGED <<jobVars, phase, metrics, cluster>>

\* the job whose tasks the allocate action could not place in this session,
\* and the shortfalls it may record for a node
FitJobs == {"ns1/b"}

FitNodes == {"n1"}

FitDeltas == {[MilliCPU |-> 0 - 1, Memory |-> 0 - 2, MilliGPU |-> 0]}

\* the allocate action records why a task of job j does not fit node n
RecordFitDelta(j) ==
    /\ phase = "open" /\ ret = NoRet
    /\ \E n \in FitNodes \ DOMAIN jobs[j].NodesFitDelta, d \in FitDeltas :
           jobs' = [jobs EXCEPT ![j].NodesFitDelta = MapPut(@, n, d)]
    /\ UNCHANGED <<heap, dupAdds, last, snap, gangVars>>

\* the caller has used the result
Return ==
    /\ phase = "open" /\ ret # NoRet
    /\ ret' = NoRet
    /\ UNCHANGED <<jobVars, phase, metrics, cluster>>

\* string(ssn.UID) of the session of a cycle
SsnUIDOf(cycle) == "ssn-" \o Itoa(cycle)

\* ssn.UpdateJobCondition(job, jc) that succeeded: the PodGroup of the job has
\* the condition jc, in place of a former condition of the same type
UpdateJobCondition(conds, job, jc) ==
    MapPut(conds, job,
           MapPut(IF job \in DOMAIN conds THEN conds[job] ELSE EmptyMap,
                  jc.Type, jc))

\* the conditions of the PodGroups after the calls of a close
RECURSIVE PublishConditions(_, _)
PublishConditions(conds, calls) ==
    IF calls = << >> THEN conds
    ELSE LET c == Head(calls)
         IN  PublishConditions(
                 IF c.fn = "UpdateJobCondition" /\ ~c.err
                 THEN UpdateJobCondition(conds, c.job, c.cond)
                 ELSE conds,
                 Tail(calls))

DoOnSessionClose ==
    /\ phase = "open" /\ ret = NoRet
    /\ \E order \in Orders(DOMAIN jobs), fails \in SUBSET DOMAIN jobs :
           LET r == OnSessionClose(jobs, SsnUIDOf(cluster.cycle), metrics,
                                   order, fails)
           IN  /\ ret' = [fn |-> "OnSessionClose", calls |-> r.calls]
               /\ metrics' = r.m
               /\ cluster' = [cluster EXCEPT !.conditions =
                                  PublishConditions(@, r.calls)]
    /\ phase' = "closed"
    /\ UNCHANGED jobVars

NextGang ==
    \/ \E j \in DOMAIN jobs : CallJobReady(j)
    \/ \E j \in DOMAIN jobs : CallValidJobFn(j)
    \/ \E l, r \in DOMAIN jobs : CallJobOrderFn(l, r)
    \/ CallPreemptableFn
    \/ \E j \in FitJobs : RecordFitDelta(j)
    \/ Return
    \/ DoOnSessionClose

SpecGang == InitGang /\ [][NextGang]_vars

---------------------------------------------------------------------------
(* Properties of the gang plugin, stated over the tasks of a job's Tasks.   *)

ReadyStatuses ==
    {"Allocated", "Pipelined", "Binding", "Bound", "Running", "Succeeded"}

\* the number of tasks of ji, among those with an id of uids, that have a
\* status of statuses
CountIn(ji, uids, statuses) ==
    Cardinality({u \in uids \cap DOMAIN ji.Tasks :
                    heap[ji.Tasks[u]].Status \in statuses})

ReadyCount(ji) == CountIn(ji, DOMAIN ji.Tasks, ReadyStatuses)

ValidCount(ji) == CountIn(ji, DOMAIN ji.Tasks, ReadyStatuses \cup {"Pending"})

\* the job that holds object v is still ready once v alone is removed from it
ReadyWithout(v) ==
    LET ji == jobs[heap[v].Job]
    IN  CountIn(ji, DOMAIN ji.Tasks \ {heap[v].UID}, ReadyStatuses)
            >= ji.MinAvailable

\* the job that holds object v is ready with one ready task less
ReadyLessOne(v) ==
    jobs[heap[v].Job].MinAvailable <= ReadyCount(jobs[heap[v].Job]) - 1

RECURSIVE Filter(_, _)
Filter(q, keep) ==
    IF q = << >> THEN << >>
    ELSE (IF keep[Head(q)] THEN <<Head(q)>> ELSE << >>) \o Filter(Tail(q), keep)

PreemptReturned == ret.fn = "preemptableFn"

\* C6 as stated: the gang preemptable filter returns, in input order, exactly
\* the candidates whose job is still ready after the candidate alone is
\* removed, or whose job has MinAvailable = 1, whatever the candidate's status
\* and the preemptor.
C6_Original ==
    PreemptReturned =>
        ret.res = Filter(ret.preemptees,
                         [v \in DOMAIN heap |->
                             \/ ReadyWithout(v)
                             \/ jobs[heap[v].Job].MinAvailable = 1])

\* C6 as amended: the filter returns, in input order, exactly the candidates
\* whose job has MinAvailable <= readyTaskNum - 1 or MinAvailable = 1, whatever
\* the preemptor; for a candidate whose status counts as ready that is the job
\* being still ready after the candidate alone is removed, and a candidate of
\* any other status is filtered as if it counted.
C6_PreemptableFilter ==
    PreemptReturned =>
        /\ ret.res = Filter(ret.preemptees,
                            [v \in DOMAIN heap |->
                                \/ ReadyLessOne(v)
                                \/ jobs[heap[v].Job].MinAvailable = 1])
        /\ \A v \in DOMAIN heap :
               heap[v].Status \in ReadyStatuses
                   => (ReadyLessOne(v) <=> ReadyWithout(v))
        /\ \A p \in Preemptors :
               ret.res = preemptableFn(jobs, heap, p, ret.preemptees)

\* the filter rejected a Running candidate of a job with MinAvailable above 1
\* and admitted the candidate that came after it
C6_Witness ==
    /\ PreemptReturned
    /\ Len(ret.preemptees) = 2
    /\ ret.res = <<ret.preemptees[2]>>
    /\ heap[ret.preemptees[1]].Status = "Running"
    /\ jobs[heap[ret.preemptees[1]].Job].MinAvailable > 1

\* C7: jobReady(job) is true iff the number of the job's tasks that are
\* Allocated, Pipelined, Binding, Bound, Running or Succeeded is at least
\* MinAvailable; Pending, Releasing, Failed and Unknown tasks never count.
C7_JobReady ==
    ret.fn = "jobReady" =>
        (ret.res <=> ReadyCount(jobs[ret.job]) >= jobs[ret.job].MinAvailable)

\* jobReady returned false for a job that has MinAvailable tasks, one of them
\* Pending, Releasing, Failed or Unknown
C7_Witness ==
    /\ ret.fn = "jobReady"
    /\ ~ret.res
    /\ jobs[ret.job].MinAvailable > 0
    /\ Cardinality(DOMAIN jobs[ret.job].Tasks) >= jobs[ret.job].MinAvailable
    /\ ReadyCount(jobs[ret.job]) > 0

\* C8: validJobFn returns nil iff the number of the job's tasks that are
\* Allocated, Pipelined, Binding, Bound, Running, Succeeded or Pending is at
\* least MinAvailable; otherwise Pass is false, the reason is NotEnoughPods and
\* the message carries that count and MinAvailable.
C8_ValidJobFn ==
    ret.fn = "validJobFn" =>
        IF ValidCount(jobs[ret.job]) >= jobs[ret.job].MinAvailable
        THEN ret.res = NilResult
        ELSE /\ ret.res.Pass = FALSE
             /\ ret.res.Reason = "NotEnoughPodsReason"
             /\ ret.res.Message =
                    "Not enough valid tasks for gang-scheduling, valid: "
                    \o Itoa(ValidCount(jobs[ret.job])) \o ", min: "
                    \o Itoa(jobs[ret.job].MinAvailable)

\* validJobFn rejected a job that holds a Pending task and a task that is not
\* valid
C8_Witness ==
    /\ ret.fn = "validJobFn"
    /\ ret.res # NilResult
    /\ ValidCount(jobs[ret.job]) > 0
    /\ ValidCount(jobs[ret.job]) > ReadyCount(jobs[ret.job])
    /\ Cardinality(DOMAIN jobs[ret.job].Tasks) > ValidCount(jobs[ret.job])

IsReady(j) == ReadyCount(jobs[j]) >= jobs[j].MinAvailable

\* C9: jobOrderFn(L, R) is -1 when L is not ready and R is ready, +1 when L is
\* ready and R is not, 0 otherwise; so cmp(L, R) = -cmp(R, L), and the order
\* is transitive.
C9_JobOrderFn ==
    ret.fn = "jobOrderFn" =>
        /\ ret.res = (IF ~IsReady(ret.l) /\ IsReady(ret.r) THEN 0 - 1
                      ELSE IF IsReady(ret.l) /\ ~IsReady(ret.r) THEN 1
                      ELSE 0)
        /\ ret.res = 0 - jobOrderFn(jobs[ret.r], jobs[ret.l])
        /\ \A m \in DOMAIN jobs :
               LET rm == jobOrderFn(jobs[ret.r], jobs[m])
                   lm == jobOrderFn(jobs[ret.l], jobs[m])
               IN  /\ (ret.res <= 0 /\ rm <= 0) => lm <= 0
                   /\ (ret.res < 0 /\ rm <= 0) => lm < 0
                   /\ (ret.res <= 0 /\ rm < 0) => lm < 0

\* jobOrderFn put a job that is not ready before a ready one, in a session
\* that holds a second ready job
C9_Witness ==
    /\ ret.fn = "jobOrderFn"
    /\ ret.res = 0 - 1
    /\ \E m \in DOMAIN jobs \ {ret.l, ret.r} : IsReady(m)

CallsOf(calls, fn) == {i \in DOMAIN calls : calls[i].fn = fn}

NotReadyJobs == {j \in DOMAIN jobs : ~IsReady(j)}

CloseReturned == ret.fn = "OnSessionClose"

\* C10: OnSessionClose calls UpdateJobCondition with a PodGroupUnschedulable
\* condition exactly once for each job that is not ready and never for a ready
\* job, calls RegisterJobRetries once per job that is not ready, and after all
\* jobs calls UpdateUnscheduleJobCount with the number of jobs not ready.
C10_OnSessionClose ==
    CloseReturned =>
        /\ \A i \in CallsOf(ret.calls, "UpdateJobCondition") :
               ret.calls[i].cond.Type = "PodGroupUnschedulableType"
        /\ \A j \in DOMAIN jobs :
               Cardinality({i \in CallsOf(ret.calls, "UpdateJobCondition") :
                               ret.calls[i].job = j})
                   = (IF j \in NotReadyJobs THEN 1 ELSE 0)
        /\ \A n \in {jobs[j].Name : j \in DOMAIN jobs} :
               Cardinality({i \in CallsOf(ret.calls, "RegisterJobRetries") :
                               ret.calls[i].jobID = n})
                   = Cardinality({j \in NotReadyJobs : jobs[j].Name = n})
        /\ Cardinality(CallsOf(ret.calls, "RegisterJobRetries"))
               = Cardinality(NotReadyJobs)
        /\ CallsOf(ret.calls, "UpdateUnscheduleJobCount") = {Len(ret.calls)}
        /\ ret.calls[Len(ret.calls)].jobCount = Cardinality(NotReadyJobs)
        /\ metrics.unscheduleJobCount = Cardinality(NotReadyJobs)

\* a session closed with a ready job and two jobs not ready
C10_Witness ==
    /\ CloseReturned
    /\ phase = "closed"
    /\ Cardinality(NotReadyJobs) = 2
    /\ Cardinality(CallsOf(ret.calls, "UpdateJobCondition")) = 2

---------------------------------------------------------------------------
(* The condition a close publishes.                                         *)

\* the calls of a close made for job j, as <<UpdateUnscheduleTaskCount,
\* UpdateJobCondition>> index pairs: the gauge call comes two calls before
\* the condition call
ConditionCalls(j) ==
    {i \in CallsOf(ret.calls, "UpdateJobCondition") : ret.calls[i].job = j}

\* C11: for every job not ready at close the published message is
\* "A/B tasks in gang unschedulable: <FitError>", A = MinAvailable - number of
\* ready tasks, B = number of tasks, <FitError> the job's FitError text; A is
\* the value given to UpdateUnscheduleTaskCount, and the condition's
\* TransitionID is the session id.
C11_CloseMessage ==
    CloseReturned =>
        \A j \in NotReadyJobs :
            /\ ConditionCalls(j) # {}
            /\ \A i \in ConditionCalls(j) :
                   LET a == jobs[j].MinAvailable - ReadyCount(jobs[j])
                   IN  /\ ret.calls[i].cond.Message =
                              Itoa(a) \o "/"
                              \o Itoa(Cardinality(DOMAIN jobs[j].Tasks))
                              \o " tasks in gang unschedulable: "
                              \o FitError(jobs[j])
                       /\ ret.calls[i].cond.TransitionID = SsnUID
                       /\ i > 2
                       /\ ret.calls[i - 2].fn = "UpdateUnscheduleTaskCount"
                       /\ ret.calls[i - 2].jobID = jobs[j].Name
                       /\ ret.calls[i - 2].taskCount = a

\* a close published, for a job with a recorded shortfall on a node, a message
\* with 1 of 1 tasks and the histogram of that node
C11_Witness ==
    /\ CloseReturned
    /\ \E j \in NotReadyJobs :
           /\ DOMAIN jobs[j].NodesFitDelta # {}
           /\ \E i \in ConditionCalls(j) :
                  ret.calls[i].cond.Message =
                      "1/1 tasks in gang unschedulable: 0/1 nodes are available, 1 insufficient cpu, 1 insufficient memory."

\* the jobs of the shortfall scenario: MinAvailable 3, two tasks, both
\* Pending, no node fit delta recorded
ShortfallJobs ==
    {j \in DOMAIN jobs :
        /\ jobs[j].MinAvailable = 3
        /\ Cardinality(DOMAIN jobs[j].Tasks) = 2
        /\ \A u \in DOMAIN jobs[j].Tasks :
               heap[jobs[j].Tasks[u]].Status = "Pending"
        /\ DOMAIN jobs[j].NodesFitDelta = {}}

\* what the scenario says of job j but for the message: validJobFn rejects j
\* with NotEnoughPods; a close publishes one PodGroupUnschedulable condition
\* for j with message msg and, j being the one job not ready, calls
\* RegisterJobRetries for it once and UpdateUnscheduleJobCount(1)
Shortfall(j, msg) ==
    /\ (ret.fn = "validJobFn" /\ ret.job = j) =>
           /\ ret.res # NilResult
           /\ ret.res.Pass = FALSE
           /\ ret.res.Reason = "NotEnoughPodsReason"
    /\ CloseReturned =>
           /\ Cardinality(ConditionCalls(j)) = 1
           /\ \A i \in ConditionCalls(j) :
                  /\ ret.calls[i].cond.Type = "PodGroupUnschedulableType"
                  /\ ret.calls[i].cond.Message = msg
           /\ NotReadyJobs = {j} =>
                  /\ Cardinality({i \in CallsOf(ret.calls, "RegisterJobRetries") :
                                     ret.calls[i].jobID = jobs[j].Name}) = 1
                  /\ ret.calls[Len(ret.calls)].fn = "UpdateUnscheduleJobCount"
                  /\ ret.calls[Len(ret.calls)].jobCount = 1

\* C12 as stated: in the shortfall scenario the validity check fails with
\* NotEnoughPods and the close publishes "1/2 tasks in gang unschedulable: 0
\* nodes are available", calls UpdateUnscheduleJobCount(1) and calls
\* RegisterJobRetries for the job once.
C12_Original ==
    \A j \in ShortfallJobs :
        Shortfall(j, "1/2 tasks in gang unschedulable: 0 nodes are available")

\* C12 as amended: the same, with the message "3/2 tasks in gang
\* unschedulable: 0 nodes are available" (MinAvailable 3 less 0 ready tasks).
C12_Shortfall ==
    \A j \in ShortfallJobs :
        Shortfall(j, "3/2 tasks in gang unschedulable: 0 nodes are available")

\* a session whose one job not ready is a job of the scenario has closed
C12_Witness ==
    /\ CloseReturned
    /\ ShortfallJobs # {}
    /\ NotReadyJobs = ShortfallJobs

---------------------------------------------------------------------------
(* FitError on its own: a job with any recorded node fit deltas.            *)

FitErrorNodes == {"n" \o Itoa(i) : i \in 1..MaxFitNodes}

\* the deltas of a node: each resource short (negative) or not
NodeDeltas ==
    [MilliCPU : {0 - 1, 0}, Memory : {0 - 2, 0}, MilliGPU : {0 - 1, 0}]

InitFit ==
    /\ \E ns \in SUBSET FitErrorNodes :
           \E d \in [ns -> NodeDeltas] :
               jobs = [s \in {"job"} |->
                          [NewJobInfo("j1") EXCEPT !.NodesFitDelta = d]]
    /\ heap = EmptyMap
    /\ dupAdds = 0
    /\ last = NoCall
    /\ phase = "none"
    /\ ret = NoRet
    /\ metrics = NewMetrics
    /\ cluster = NewCluster
    /\ snap = NoSnap

CallFitError ==
    /\ ret = NoRet
    /\ ret' = [fn |-> "FitError", res |-> FitError(jobs["job"])]
    /\ UNCHANGED <<jobVars, phase, metrics, cluster>>

NextFit == CallFitError

SpecFit == InitFit /\ [][NextFit]_vars

\* the number of nodes of d that are short of the resource of category cat
ShortNodes(d, cat) ==
    Cardinality({n \in DOMAIN d :
                    CASE cat = "cpu" -> d[n].MilliCPU < 0
                      [] cat = "memory" -> d[n].Memory < 0
                      [] cat = "GPU" -> d[n].MilliGPU < 0})

\* the place of an entry "<k> insufficient <category>" in the lexicographic
\* order, for k below 10: by k, then "GPU" before "cpu" before "memory"
EntryRank(d, cat) ==
    10 * ShortNodes(d, cat)
    + (CASE cat = "GPU" -> 1 [] cat = "cpu" -> 2 [] cat = "memory" -> 3)

\* the entries of the categories cats, in that order, joined by ", "
RECURSIVE Histogram(_, _)
Histogram(d, cats) ==
    IF cats = {} THEN ""
    ELSE LET c == CHOOSE x \in cats :
                      \A y \in cats : EntryRank(d, x) <= EntryRank(d, y)
         IN  Itoa(ShortNodes(d, c)) \o " insufficient " \o c
             \o (IF cats = {c} THEN "" ELSE ", " \o Histogram(d, cats \ {c}))

ExampleDeltas ==
    [n \in {"n1", "n2", "n3"} |->
        CASE n = "n1" -> [MilliCPU |-> 0 - 1, Memory |-> 0, MilliGPU |-> 0]
          [] n = "n2" -> [MilliCPU |-> 0, Memory |-> 0 - 2, MilliGPU |-> 0]
          [] n = "n3" -> [MilliCPU |-> 0 - 1, Memory |-> 0, MilliGPU |-> 0 - 1]]

\* C13: FitError is "0 nodes are available" when NodesFitDelta is empty;
\* otherwise "0/N nodes are available, " then one entry "<k> insufficient
\* <category>" for each of cpu, memory, GPU with k > 0 nodes short of it, the
\* entries in lexicographic order and joined by ", ", then "."; the example of
\* three nodes gives "0/3 nodes are available, 1 insufficient GPU, 1
\* insufficient memory, 2 insufficient cpu.".
C13_FitError ==
    ret.fn = "FitError" =>
        LET d == jobs["job"].NodesFitDelta
        IN  /\ ret.res =
                   (IF DOMAIN d = {} THEN "0 nodes are available"
                    ELSE "0/" \o Itoa(Cardinality(DOMAIN d))
                         \o " nodes are available, "
                         \o Histogram(d, {c \in {"cpu", "memory", "GPU"} :
                                             ShortNodes(d, c) > 0})
                         \o ".")
            /\ d = ExampleDeltas =>
                   ret.res = "0/3 nodes are available, 1 insufficient GPU, 1 insufficient memory, 2 insufficient cpu."

\* FitError returned the text of the example
C13_Witness ==
    /\ ret.fn = "FitError"
    /\ jobs["job"].NodesFitDelta = ExampleDeltas
    /\ ret.res = "0/3 nodes are available, 1 insufficient GPU, 1 insufficient memory, 2 insufficient cpu."

---------------------------------------------------------------------------
(* Clone and the Add/Delete pair on the job model.                          *)

\* what deep equality of two jobs compares: the tasks by id with their status
\* and Resreq, the aggregates, and the ids in each bucket of the index
JobView(ji, h) ==
    [tasks |-> [u \in DOMAIN ji.Tasks |->
                   [Status |-> h[ji.Tasks[u]].Status,
                    Resreq |-> h[ji.Tasks[u]].Resreq]],
     Allocated |-> ji.Allocated,
     TotalRequest |-> ji.TotalRequest,
     index |-> [st \in DOMAIN ji.TaskStatusIndex |->
                   DOMAIN ji.TaskStatusIndex[st]]]

CloneView(ji, h) == LET r == Clone(ji, h) IN JobView(r.ji, r.h)

\* C14: for any job reachable by AddTaskInfo, DeleteTaskInfo and
\* UpdateTaskStatus calls, Clone(job) has the same task ids with the same
\* status and Resreq, the same Allocated and TotalRequest, and the same
\* TaskStatusIndex buckets holding the same ids as the job.
C14_CloneEqual ==
    \A s \in DOMAIN jobs : CloneView(jobs[s], heap) = JobView(jobs[s], heap)

\* the same, for jobs no task id was added to twice
C14_CloneEqualNoDuplicate == dupAdds = 0 => C14_CloneEqual

\* ji.AddTaskInfo(o); ji.DeleteTaskInfo(o)
AddThenDelete(ji, h, o) == DeleteTaskInfo(AddTaskInfo(ji, h, o), h, o).ji

\* C15: for any job state and any task t, AddTaskInfo(t) followed by
\* DeleteTaskInfo(t) returns Allocated and TotalRequest to their values before
\* the pair and leaves Tasks and TaskStatusIndex as they were.
C15_AddDeleteRestores ==
    \A s \in DOMAIN jobs : \A a \in Args(s, InputTasks) :
        JobView(AddThenDelete(jobs[s], a.h, a.o), a.h) = JobView(jobs[s], heap)

\* the same, for a task whose id the job does not hold, on a job no task id
\* was added to twice
C15_AddDeleteRestoresNewId ==
    dupAdds = 0 =>
        \A s \in DOMAIN jobs : \A a \in Args(s, InputTasks) :
            a.h[a.o].UID \notin DOMAIN jobs[s].Tasks =>
                JobView(AddThenDelete(jobs[s], a.h, a.o), a.h)
                    = JobView(jobs[s], heap)

---------------------------------------------------------------------------
(* Errors of UpdateJobCondition during close.                               *)

\* the jobs whose UpdateJobCondition call returned an error
FailedJobs ==
    {ret.calls[i].job :
        i \in {k \in CallsOf(ret.calls, "UpdateJobCondition") :
                  ret.calls[k].err}}

\* C16: when UpdateJobCondition returns an error for some job that is not
\* ready, OnSessionClose returns no error, every job that is not ready still
\* has its metrics recorded and its condition published, and
\* UpdateUnscheduleJobCount is still called, last, with the number of all jobs
\* not ready, the failed one included.
C16_CloseTotal ==
    (CloseReturned /\ FailedJobs # {}) =>
        /\ DOMAIN ret = {"fn", "calls"}
        /\ FailedJobs \subseteq NotReadyJobs
        /\ \A j \in NotReadyJobs :
               /\ ConditionCalls(j) # {}
               /\ \A i \in ConditionCalls(j) :
                      /\ i > 2
                      /\ ret.calls[i - 2].fn = "UpdateUnscheduleTaskCount"
                      /\ ret.calls[i - 2].jobID = jobs[j].Name
                      /\ ret.calls[i - 1].fn = "RegisterJobRetries"
                      /\ ret.calls[i - 1].jobID = jobs[j].Name
        /\ ret.calls[Len(ret.calls)].fn = "UpdateUnscheduleJobCount"
        /\ ret.calls[Len(ret.calls)].jobCount = Cardinality(NotReadyJobs)
        /\ metrics.unscheduleJobCount = Cardinality(NotReadyJobs)

\* a close where a publication failed and a later job was still published
C16_Witness ==
    /\ CloseReturned
    /\ \E i, k \in CallsOf(ret.calls, "UpdateJobCondition") :
           i < k /\ ret.calls[i].err /\ ~ret.calls[k].err
    /\ ret.calls[Len(ret.calls)].jobCount >= 2

---------------------------------------------------------------------------
(* Several scheduling cycles: each cycle opens a session on the pods as     *)
(* they then are and closes it; the PodGroup conditions and the metrics     *)
(* outlive the session.                                                     *)

\* the statuses of the pods when a session of the cycles opens
CycleChoices ==
    [t1 : {"Pending", "Running"}, t2 : {"absent"}, t3 : {"absent"},
     t4 : {"Pending", "Running"}, t5 : {"Running"}]

InitCycles ==
    /\ \E ch \in CycleChoices :
           LET st == OpenSession(ch, 1)
           IN  heap = st.h /\ jobs = st.js
    /\ dupAdds = 0
    /\ last = NoCall
    /\ phase = "open"
    /\ ret = NoRet
    /\ metrics = NewMetrics
    /\ cluster = NewCluster
    /\ snap = NoSnap

\* the next cycle's OpenSession
OpenNextSession ==
    /\ phase = "closed" /\ cluster.cycle < MaxCycles
    /\ \E ch \in CycleChoices :
           LET st == OpenSession(ch, 1)
           IN  heap' = st.h /\ jobs' = st.js
    /\ phase' = "open"
    /\ ret' = NoRet
    /\ cluster' = [cluster EXCEPT !.cycle = @ + 1]
    /\ UNCHANGED <<dupAdds, last, snap, metrics>>

NextCycles ==
    \/ DoOnSessionClose
    \/ OpenNextSession

SpecCycles == InitCycles /\ [][NextCycles]_vars

HasUnschedulableCondition(j) ==
    /\ j \in DOMAIN cluster.conditions
    /\ "PodGroupUnschedulableType" \in DOMAIN cluster.conditions[j]

\* C17: a job that received a PodGroupUnschedulable condition at the close of
\* one cycle and is ready at the close of a later cycle has no
\* PodGroupUnschedulable condition after that later close.
C17_ReadyCloseClears ==
    CloseReturned =>
        \A j \in DOMAIN jobs : IsReady(j) => ~HasUnschedulableCondition(j)

---------------------------------------------------------------------------
(* UpdateTaskStatus: the rejected call.                                      *)

\* C18: when validateStatusUpdate rejects UpdateTaskStatus(task, status), the
\* call returns the error and changes nothing: the task keeps its status, and
\* the job's Tasks, TaskStatusIndex, Allocated and TotalRequest are as before.
C18_RejectedUpdate ==
    \A s \in DOMAIN jobs :
        \A a \in Args(s, UpdateTasks), status \in InputStatuses :
            LET r == UpdateTaskStatus(jobs[s], a.h, a.o, status, FALSE)
            IN  /\ r.err
                /\ r.h[a.o].Status = a.h[a.o].Status
                /\ r.ji = jobs[s]
                /\ r.h = a.h
                /\ JobView(r.ji, r.h) = JobView(jobs[s], heap)

\* a call on a task the job holds was rejected
C18_Witness ==
    /\ last.op = "UpdateTaskStatus"
    /\ last.err
    /\ last.uid \in DOMAIN jobs[last.slot].Tasks

---------------------------------------------------------------------------
(* A job and its clone, both live: calls on either, each with its own       *)
(* tasks.  snap keeps what the two jobs were before the latest call.        *)

\* the tasks of the job the clone is taken of
SnapshotChoices == [t1 : {"Pending", "Allocated"}, t2 : {"absent", "Running"}]

RECURSIVE AddTasks(_, _, _)
AddTasks(st, ch, todo) ==
    IF todo = << >> THEN st
    ELSE LET u == Head(todo)
             t == TaskInfo(u, "j1", ch[u], [MilliCPU |-> 1, Memory |-> 2])
             h1 == Alloc(st.h, NewObj, t)
         IN  IF ch[u] = "absent" THEN AddTasks(st, ch, Tail(todo))
             ELSE AddTasks(Collect(h1, [st.js EXCEPT !["job"] =
                                           AddTaskInfo(st.js["job"], h1, NewObj)]),
                           ch, Tail(todo))

JobViews == [x \in DOMAIN jobs |-> JobView(jobs[x], heap)]

\* clone := job.Clone()
InitSnapshot ==
    /\ \E ch \in SnapshotChoices :
           LET st == AddTasks([h |-> EmptyMap,
                               js |-> [s \in {"job"} |-> NewJobInfo("j1")]],
                              ch, <<"t1", "t2">>)
               r == Clone(st.js["job"], st.h)
               c == Collect(r.h, [s \in Slots |->
                                     IF s = "job" THEN st.js["job"] ELSE r.ji])
           IN  heap = c.h /\ jobs = c.js
    /\ dupAdds = 0
    /\ last = NoCall
    /\ phase = "none"
    /\ ret = NoRet
    /\ metrics = NewMetrics
    /\ cluster = NewCluster
    /\ snap = NoSnap

\* a call on slot s is counted, with what the jobs are before it and whether the
\* task passed is the job's own object
Record(s, a) ==
    snap' = [calls |-> snap.calls + 1,
             held |-> Holds(jobs[s], a.h[a.o].UID, a.o),
             pre |-> JobViews]

SnapshotAddTaskInfo(s) ==
    /\ snap.calls < MaxSnapCalls
    /\ \E a \in Args(s, InputTasks) : AddTaskInfoCall(s, a) /\ Record(s, a)

SnapshotDeleteTaskInfo(s) ==
    /\ snap.calls < MaxSnapCalls
    /\ \E a \in Args(s, DeleteTasks) : DeleteTaskInfoCall(s, a) /\ Record(s, a)

SnapshotUpdateTaskStatus(s) ==
    /\ snap.calls < MaxSnapCalls
    /\ \E a \in Args(s, UpdateTasks), status \in InputStatuses :
           \E legal \in validateStatusUpdate(a.h[a.o].Status, status) :
               UpdateTaskStatusCall(s, a, status, legal) /\ Record(s, a)

NextSnapshot ==
    \/ \E s \in Slots : SnapshotAddTaskInfo(s)
    \/ \E s \in Slots : SnapshotDeleteTaskInfo(s)
    \/ \E s \in Slots : SnapshotUpdateTaskStatus(s)

SpecSnapshot == InitSnapshot /\ [][NextSnapshot]_vars

\* Allocated after a status change from old to new of a task asking for req
AllocatedAfter(allocated, old, new, req) ==
    CASE ~AllocatedStatus(old) /\ AllocatedStatus(new) ->
             [MilliCPU |-> allocated.MilliCPU + req.MilliCPU,
              Memory |-> allocated.Memory + req.Memory]
      [] AllocatedStatus(old) /\ ~AllocatedStatus(new) ->
             [MilliCPU |-> allocated.MilliCPU - req.MilliCPU,
              Memory |-> allocated.Memory - req.Memory]
      [] OTHER -> allocated

HeldUpdateDone ==
    /\ snap.calls > 0
    /\ last.op = "UpdateTaskStatus"
    /\ ~last.err
    /\ snap.held

\* C19: a successful UpdateTaskStatus(t, s) on a task t the job holds leaves
\* the task ids of Tasks and TotalRequest unchanged, and changes Allocated by
\* exactly t.Resreq: up when the old status is not an AllocatedStatus and s
\* is, down when the old status is and s is not, not at all otherwise.
C19_UpdateFrame ==
    HeldUpdateDone =>
        LET pre == snap.pre[last.slot]
            post == JobView(jobs[last.slot], heap)
        IN  /\ DOMAIN post.tasks = DOMAIN pre.tasks
            /\ post.TotalRequest = pre.TotalRequest
            /\ post.tasks[last.uid].Status = last.status
            /\ post.Allocated =
                   AllocatedAfter(pre.Allocated, pre.tasks[last.uid].Status,
                                  last.status, pre.tasks[last.uid].Resreq)

\* a held Pending task was updated to Allocated and Allocated went up
C19_Witness ==
    /\ HeldUpdateDone
    /\ snap.pre[last.slot].tasks[last.uid].Status = "Pending"
    /\ last.status = "Allocated"
    /\ jobs[last.slot].Allocated.MilliCPU
           = snap.pre[last.slot].Allocated.MilliCPU + 1

\* C20: a job and its Clone are independent: a call of AddTaskInfo,
\* DeleteTaskInfo or UpdateTaskStatus on the clone, with the clone's own
\* tasks, leaves the original's Tasks, statuses, TaskStatusIndex, Allocated
\* and TotalRequest as they were, and a call on the original leaves the clone
\* as it was; the two share no task object.
C20_CloneIndependent ==
    /\ JobRefs(jobs["job"]) \cap JobRefs(jobs["clone"]) = {}
    /\ snap.calls > 0 =>
           \A x \in Slots \ {last.slot} :
               JobView(jobs[x], heap) = snap.pre[x]

\* the clone's task was updated, the original's task has the former status
C20_Witness ==
    /\ snap.calls > 0
    /\ last.op = "UpdateTaskStatus" /\ ~last.err /\ last.slot = "clone"
    /\ snap.held
    /\ last.uid \in DOMAIN jobs["job"].Tasks
    /\ heap[jobs["job"].Tasks[last.uid]].Status # last.status
    /\ heap[jobs["clone"].Tasks[last.uid]].Status = last.status

---------------------------------------------------------------------------
(* The victims of one preemptableFn call, all evicted.                       *)

\* every task of victims is removed from its job: DeleteTaskInfo each
RECURSIVE EvictAll(_, _)
EvictAll(js, victims) ==
    IF victims = << >> THEN js
    ELSE LET v == Head(victims)
             j == heap[v].Job
         IN  EvictAll([js EXCEPT ![j] = DeleteTaskInfo(js[j], heap, v).ji],
                      Tail(victims))

\* the victims returned that belong to job j
VictimsOf(j) ==
    {ret.res[i] : i \in {k \in DOMAIN ret.res : heap[ret.res[k]].Job = j}}

\* C21: after any single call of the gang preemptable filter, once every victim
\* it returned is removed from its job, every job with MinAvailable above 1
\* that was ready before the call is still ready, also when several victims
\* belong to the same job.
C21_JointEviction ==
    PreemptReturned =>
        \A j \in DOMAIN jobs :
            (jobs[j].MinAvailable > 1 /\ IsReady(j)) =>
                ReadyCount(EvictAll(jobs, ret.res)[j]) >= jobs[j].MinAvailable

\* the same, for calls that return at most one victim of each job
C21_SingleEviction ==
    (PreemptReturned /\ \A j \in DOMAIN jobs : Cardinality(VictimsOf(j)) <= 1)
        => \A j \in DOMAIN jobs :
               (jobs[j].MinAvailable > 1 /\ IsReady(j)) =>
                   ReadyCount(EvictAll(jobs, ret.res)[j])
                       >= jobs[j].MinAvailable

---------------------------------------------------------------------------
(* UpdateTaskStatus with a task whose id the job does not have.              *)

\* C22: UpdateTaskStatus(task, status) with a task whose id is not in the
\* job's Tasks returns an error, as DeleteTaskInfo does for such a task, and
\* leaves Tasks, TaskStatusIndex, Allocated and TotalRequest unchanged; it
\* never adds a task id to the job.
C22_UnknownTaskId ==
    \A s \in DOMAIN jobs :
        \A a \in Args(s, UpdateTasks), status \in InputStatuses :
            a.h[a.o].UID \notin DOMAIN jobs[s].Tasks =>
                \A legal \in validateStatusUpdate(a.h[a.o].Status, status) :
                    LET r == UpdateTaskStatus(jobs[s], a.h, a.o, status, legal)
                    IN  /\ DeleteTaskInfo(jobs[s], a.h, a.o).err
                        /\ r.err
                        /\ DOMAIN r.ji.Tasks = DOMAIN jobs[s].Tasks
                        /\ JobView(r.ji, r.h) = JobView(jobs[s], heap)

\* DeleteTaskInfo with a task whose id is not in Tasks returns an error and
\* leaves the job as it is
C22_DeleteUnknownTaskId ==
    \A s \in DOMAIN jobs : \A a \in Args(s, DeleteTasks) :
        a.h[a.o].UID \notin DOMAIN jobs[s].Tasks =>
            LET d == DeleteTaskInfo(jobs[s], a.h, a.o)
            IN  d.err /\ d.ji = jobs[s]

---------------------------------------------------------------------------
(* The metrics of a close, job by job.  The registry is new when the        *)
(* session opens, so a counter's value after the close is its increase.     *)

\* the entries recorded for job j are those of the label the code passes,
\* job.Name
MetricsRight(j) ==
    LET n == jobs[j].Name
    IN  /\ n \in DOMAIN metrics.unscheduleTaskCount
        /\ metrics.unscheduleTaskCount[n]
               = jobs[j].MinAvailable - ReadyCount(jobs[j])
        /\ n \in DOMAIN metrics.jobRetryCount
        /\ metrics.jobRetryCount[n] = 1

\* C23: after OnSessionClose, for every job J that was not ready, the
\* unschedule-task gauge entry recorded for J is J's own MinAvailable -
\* readyTaskNum(J) and the job-retry counter entry recorded for J went up by
\* exactly 1 during the close, for every iteration order, also when two jobs
\* in different namespaces have the same Name.
C23_PerJobMetrics ==
    CloseReturned => \A j \in NotReadyJobs : MetricsRight(j)

\* the same, for the jobs whose Name no other job not ready has
C23_PerJobMetricsUniqueName ==
    CloseReturned =>
        \A j \in NotReadyJobs :
            (\A k \in NotReadyJobs \ {j} : jobs[k].Name # jobs[j].Name)
                => MetricsRight(j)

=============================================================================
